---- MODULE Spec2Model ----
(***************************************************************************)
(* Rank / condition evaluation and XP-bucket allocation of Cryptasium.     *)
(*                                                                         *)
(* The state is the part of the database the engine reads and writes:      *)
(* custom_ranks, rank_conditions, trackable_entries, task_completions,     *)
(* daily_logs and streaks, plus the outcome of the last request and what   *)
(* the requests served at the same moment have read.                       *)
(* The operations are the request handlers of app.py that write ledger     *)
(* rows; the evaluators are the methods of models.py.                      *)
(*                                                                         *)
(* Notes on the source:                                                    *)
(*  - app.py passes allocated_condition_id to TaskCompletion(...) and      *)
(*    migrate_task_allocation.py adds that column to task_completions;     *)
(*    the completion rows of the model carry the column as app.py writes   *)
(*    it.                                                                  *)
(*  - app.py calls current_user.check_rank_update() before committing in   *)
(*    admin_trackable_action and admin_task_action; models.py holds no     *)
(*    definition of it.  It is taken as rank bookkeeping on the users row  *)
(*    (migrate_user_rank_tracking.py: current_rank_id, rank_changed_at)    *)
(*    that neither reads nor writes a ledger row, so the handlers commit.  *)
(*  - UserSettings.enable_youtube_sync defaults to False, so               *)
(*    User.get_youtube_xp() is 0 here.                                     *)
(*  - ids are SQLite INTEGER PRIMARY KEY rowids: a new row gets the        *)
(*    largest id in its table plus one.                                    *)
(***************************************************************************)
EXTENDS Integers, Sequences, FiniteSets, TLC

\* ------------------------------------------------------------------ bounds
\* ledger rows (entries and completions together) a behaviour holds at once
MaxRows == 2
\* largest row id a table hands out
MaxRowId == 3

\* largest id the rank_conditions table hands out
MaxCondId == 4
\* largest id the custom_ranks table hands out
MaxRankId == 3

\* --------------------------------------------------------- null and dates
\* None for an id column (ids start at 1)
NoId == 0
\* None for CustomRank.min_xp
NoXp == 0 - 1
\* date.today(), as a day number
Today == 1
\* None for Streak.last_activity_date
NoDate == 0 - 1

Users == {1}

Abs(x) == IF x < 0 THEN 0 - x ELSE x

Max(S) == CHOOSE x \in S : \A y \in S : y <= x

RECURSIVE SumFn(_, _)
SumFn(f, S) ==
  IF S = {} THEN 0
  ELSE LET x == CHOOSE y \in S : TRUE IN f[x] + SumFn(f, S \ {x})

RECURSIVE ProdFn(_, _)
ProdFn(f, S) ==
  IF S = {} THEN 1
  ELSE LET x == CHOOSE y \in S : TRUE IN f[x] * ProdFn(f, S \ {x})

\* int(a / b) of Python for b > 0: the quotient truncated towards zero
TruncDiv(a, b) == IF a < 0 THEN 0 - ((0 - a) \div b) ELSE a \div b

\* SQLite rowid of a new row
NewId(rows) == IF rows = {} THEN 1 ELSE Max({r.id : r \in rows}) + 1

\* -------------------------------------------------------- trackable types
\* xp_multiplier is kept as a fraction mul_num / mul_den
\* rows as created by init_user_gamification, plus one tiered type; the last
\* row is the blog_post type of a second account
TrackableTypes ==
  { [id |-> 1, user_id |-> 1, slug |-> "blog_post", xp_mode |-> "fixed",
     xp_per_unit |-> 50, mul_num |-> 1, mul_den |-> 1, tiers |-> << >>],
    [id |-> 2, user_id |-> 1, slug |-> "sale", xp_mode |-> "value_based",
     xp_per_unit |-> 10, mul_num |-> 1, mul_den |-> 10, tiers |-> << >>],
    [id |-> 3, user_id |-> 1, slug |-> "package", xp_mode |-> "tiered",
     xp_per_unit |-> 10, mul_num |-> 1, mul_den |-> 1,
     tiers |-> << [min |-> 0, xp |-> 10], [min |-> 100, xp |-> 50] >>],
    [id |-> 4, user_id |-> 2, slug |-> "blog_post", xp_mode |-> "fixed",
     xp_per_unit |-> 50, mul_num |-> 1, mul_den |-> 1, tiers |-> << >>] }

TrackableById(tid) == CHOOSE t \in TrackableTypes : t.id = tid

\* sorted(tiers, key=min, reverse=True), then the first tier the value reaches
RECURSIVE TierXp(_, _, _)
TierXp(tiers, value, default) ==
  IF tiers = {} THEN default
  ELSE LET top == CHOOSE t \in tiers : \A o \in tiers : o.min <= t.min
       IN IF Abs(value) >= top.min THEN top.xp
          ELSE TierXp(tiers \ {top}, value, default)

calculate_xp_for_entry(t, count, value) ==
  IF t.xp_mode = "fixed" THEN count * t.xp_per_unit
  ELSE IF t.xp_mode = "value_based" /\ value # 0
       THEN (Abs(value) * t.mul_num) \div t.mul_den
  ELSE IF t.xp_mode = "tiered" /\ value # 0
       THEN TierXp({t.tiers[i] : i \in DOMAIN t.tiers}, value, t.xp_per_unit) * count
  ELSE count * t.xp_per_unit

\* TrackableEntry.get_xp
get_xp(e) ==
  IF \E t \in TrackableTypes : t.id = e.trackable_type_id
  THEN calculate_xp_for_entry(TrackableById(e.trackable_type_id), e.count, e.value)
  ELSE 0

\* ------------------------------------------------------------ daily tasks
Tasks ==
  { [id |-> 1, user_id |-> 1, slug |-> "create", task_type |-> "normal",
     target_count |-> 1, xp_value |-> 25, xp_per_count |-> 0],
    [id |-> 2, user_id |-> 1, slug |-> "reps", task_type |-> "count",
     target_count |-> 2, xp_value |-> 25, xp_per_count |-> 0] }

\* UserSettings.daily_xp_goal
daily_xp_goal == 50


\* ------------------------------------------------------------ rank ladders
Rank(i, lvl, mx, ismax) ==
  [id |-> i, user_id |-> 1, level |-> lvl, min_xp |-> mx, is_max_rank |-> ismax]

Cond(i, r, type, thr, bucket, slug) ==
  [id |-> i, rank_id |-> r, condition_type |-> type, threshold |-> thr,
   is_bucket |-> bucket, trackable_slug |-> slug]

\* ladders a user can build with admin_rank_add
\* 1: two bucketed total_xp conditions on level 2
LadderBuckets ==
  [ranks |-> { Rank(1, 1, 0, FALSE), Rank(2, 2, NoXp, FALSE), Rank(3, 3, NoXp, TRUE) },
   conditions |-> { Cond(1, 2, "total_xp", 50, TRUE, ""),
                    Cond(2, 2, "total_xp", 100, TRUE, ""),
                    Cond(3, 3, "trackable_count", 1, FALSE, "sale") }]

\* 2: one bucketed total_xp condition next to a trackable_count condition
\*    flagged is_bucket
LadderSingle ==
  [ranks |-> { Rank(1, 1, NoXp, FALSE), Rank(2, 2, NoXp, FALSE), Rank(3, 3, NoXp, FALSE) },
   conditions |-> { Cond(1, 2, "total_xp", 50, TRUE, ""),
                    Cond(2, 2, "trackable_count", 1, TRUE, "blog_post"),
                    Cond(3, 3, "trackable_xp", 100, TRUE, "sale") }]

\* 3: legacy min_xp ranks with a gap in the levels, the last one is_max_rank
LadderLegacy ==
  [ranks |-> { Rank(1, 1, 0, FALSE), Rank(2, 2, 100, FALSE), Rank(3, 4, 200, TRUE) },
   conditions |-> {}]

\* 4: five levels, the odd ones reachable without the even ones
LadderSkip ==
  [ranks |-> { Rank(1, 1, NoXp, FALSE), Rank(2, 2, NoXp, FALSE), Rank(3, 3, NoXp, FALSE),
               Rank(4, 4, NoXp, FALSE), Rank(5, 5, NoXp, FALSE) },
   conditions |-> { Cond(1, 2, "trackable_count", 1, FALSE, "sale"),
                    Cond(2, 3, "total_xp", 50, FALSE, ""),
                    Cond(3, 4, "trackable_count", 2, FALSE, "sale"),
                    Cond(4, 5, "total_xp", 100, FALSE, ""),
                    Cond(5, 5, "tasks_completed", 0, FALSE, "") }]

\* 5: the lowest rank is_max_rank, with ranks above it
LadderMaxLow ==
  [ranks |-> { Rank(1, 1, NoXp, TRUE), Rank(2, 2, NoXp, FALSE), Rank(3, 4, 150, FALSE) },
   conditions |-> { Cond(1, 2, "total_xp", 50, TRUE, "") }]

\* 6: the lowest rank is_max_rank, nothing at the level right above it
LadderMaxGap ==
  [ranks |-> { Rank(1, 1, NoXp, TRUE), Rank(2, 3, 50, FALSE) },
   conditions |-> {}]

\* 7: no rank met at the start; two global total_xp conditions on one rank
LadderGlobalPair ==
  [ranks |-> { Rank(1, 2, 50, FALSE), Rank(2, 3, NoXp, FALSE) },
   conditions |-> { Cond(1, 2, "total_xp", 100, FALSE, ""),
                    Cond(2, 2, "total_xp", 150, FALSE, "") }]

Ladders ==
  { LadderBuckets, LadderSingle, LadderLegacy, LadderSkip,
    LadderMaxLow, LadderMaxGap, LadderGlobalPair }

\* the ladders whose next rank takes the resolver through each of its cases
AllocationLadders == { LadderBuckets, LadderSingle, LadderLegacy }

\* --------------------------------------------------------------- the state
VARIABLES ranks, conditions, entries, completions, daily_log, streak, last,
          inflight

vars == << ranks, conditions, entries, completions, daily_log, streak, last, inflight >>

\* inflight holds the requests being served at the same moment: what each one
\* has read so far and what it answered; the handlers that run one at a time
\* leave it empty
NoRequests == << >>

\* the bounds leave room for one more row in the table
RoomFor(rows) ==
  /\ Cardinality(entries) + Cardinality(completions) < MaxRows
  /\ NewId(rows) <= MaxRowId

\* the outcome of a request: what was asked, what was answered, what was written
Outcome(op, action, explicit, status, cands, table, row) ==
  [op |-> op, action |-> action, explicit |-> explicit,
   status |-> status, conditions |-> cands, table |-> table, row |-> row]

NoRank == [id |-> NoId, user_id |-> NoId, level |-> 0, min_xp |-> NoXp, is_max_rank |-> FALSE]


\* -------------------------------------------------------------- evaluators
EntriesOf(u) == {e \in entries : e.user_id = u}

CompletionsOf(u) == {c \in completions : c.user_id = u}

\* User.get_youtube_xp with enable_youtube_sync off
get_youtube_xp(u) == 0

\* User.get_total_xp: count * xp_per_unit over the entries, plus the daily
\* logs' total_xp, plus the YouTube XP
User_get_total_xp(u) ==
  LET es == {e \in EntriesOf(u) : \E t \in TrackableTypes : t.id = e.trackable_type_id}
  IN SumFn([e \in es |-> e.count * TrackableById(e.trackable_type_id).xp_per_unit], es)
     + (IF daily_log[u].exists THEN daily_log[u].total_xp ELSE 0)
     + get_youtube_xp(u)

\* TrackableType.query.filter_by(user_id, slug).first()
TrackableBySlug(u, slug) == {t \in TrackableTypes : t.user_id = u /\ t.slug = slug}

\* TrackableType.get_total_xp
Trackable_get_total_xp(t) ==
  LET es == {e \in entries : e.trackable_type_id = t.id}
  IN SumFn([e \in es |-> get_xp(e)], es)

\* TrackableType.get_total_count
get_total_count(t) ==
  LET es == {e \in entries : e.trackable_type_id = t.id}
  IN SumFn([e \in es |-> e.count], es)

\* a check_condition whose bucketed total_xp branch drops the
\* allocated_condition_id filter: every entry of the user counts
current_value_unfiltered(c, u) ==
  IF c.condition_type = "total_xp"
  THEN IF c.is_bucket
       THEN LET es == {e \in entries : e.user_id = u}
            IN SumFn([e \in es |-> get_xp(e)], es)
       ELSE User_get_total_xp(u)
  ELSE IF c.condition_type = "trackable_xp" /\ c.trackable_slug # ""
  THEN IF TrackableBySlug(u, c.trackable_slug) # {}
       THEN Trackable_get_total_xp(CHOOSE t \in TrackableBySlug(u, c.trackable_slug) : TRUE)
       ELSE 0
  ELSE IF c.condition_type = "trackable_count" /\ c.trackable_slug # ""
  THEN IF TrackableBySlug(u, c.trackable_slug) # {}
       THEN get_total_count(CHOOSE t \in TrackableBySlug(u, c.trackable_slug) : TRUE)
       ELSE 0
  ELSE IF c.condition_type = "streak_current"
  THEN IF streak[u].exists THEN streak[u].current_count ELSE 0
  ELSE IF c.condition_type = "streak_longest"
  THEN IF streak[u].exists THEN streak[u].longest_count ELSE 0
  ELSE IF c.condition_type = "tasks_completed"
  THEN Cardinality(CompletionsOf(u))
  ELSE 0

\* RankCondition.check_condition: the current value
current_value(c, u) ==
  IF c.condition_type = "total_xp"
  THEN IF c.is_bucket
       THEN LET es == {e \in entries : e.user_id = u /\ e.allocated_condition_id = c.id}
            IN SumFn([e \in es |-> get_xp(e)], es)
       ELSE User_get_total_xp(u)
  ELSE IF c.condition_type = "trackable_xp" /\ c.trackable_slug # ""
  THEN IF TrackableBySlug(u, c.trackable_slug) # {}
       THEN Trackable_get_total_xp(CHOOSE t \in TrackableBySlug(u, c.trackable_slug) : TRUE)
       ELSE 0
  ELSE IF c.condition_type = "trackable_count" /\ c.trackable_slug # ""
  THEN IF TrackableBySlug(u, c.trackable_slug) # {}
       THEN get_total_count(CHOOSE t \in TrackableBySlug(u, c.trackable_slug) : TRUE)
       ELSE 0
  ELSE IF c.condition_type = "streak_current"
  THEN IF streak[u].exists THEN streak[u].current_count ELSE 0
  ELSE IF c.condition_type = "streak_longest"
  THEN IF streak[u].exists THEN streak[u].longest_count ELSE 0
  ELSE IF c.condition_type = "tasks_completed"
  THEN Cardinality(CompletionsOf(u))
  ELSE 0

\* a check_condition that compares with > instead of >=
check_condition_strict(c, u) ==
  [met |-> current_value(c, u) > c.threshold, value |-> current_value(c, u)]

\* RankCondition.check_condition: (is_met, current_value)
check_condition(c, u) ==
  [met |-> current_value(c, u) >= c.threshold, value |-> current_value(c, u)]

ConditionsOf(r) == {c \in conditions : c.rank_id = r.id}

\* the loop with OR in place of AND: one met condition is enough
RECURSIVE AnyMetLoop(_, _, _)
AnyMetLoop(cs, u, all_met) ==
  IF cs = {} THEN FALSE
  ELSE LET c == CHOOSE x \in cs : \A y \in cs : x.id <= y.id
       IN check_condition(c, u).met \/ AnyMetLoop(cs \ {c}, u, all_met)

\* the loop of CustomRank.check_conditions_met over self.conditions
RECURSIVE AllMetLoop(_, _, _)
AllMetLoop(cs, u, all_met) ==
  IF cs = {} THEN all_met
  ELSE LET c == CHOOSE x \in cs : \A y \in cs : x.id <= y.id
       IN AllMetLoop(cs \ {c}, u,
                     IF ~check_condition(c, u).met THEN FALSE ELSE all_met)

\* CustomRank.check_conditions_met: is_met
check_conditions_met(r, u) ==
  IF ConditionsOf(r) = {}
  THEN IF r.min_xp # NoXp THEN User_get_total_xp(u) >= r.min_xp ELSE TRUE
  ELSE AllMetLoop(ConditionsOf(r), u, TRUE)

RanksOf(u) == {r \in ranks : r.user_id = u}

\* the walk with order_by(level.asc()): it stops at the lowest met rank
RECURSIVE FirstMetUpwards(_, _)
FirstMetUpwards(rs, u) ==
  IF rs = {} THEN NoRank
  ELSE LET rank == CHOOSE r \in rs : \A o \in rs : r.level <= o.level
       IN IF check_conditions_met(rank, u) THEN rank
          ELSE FirstMetUpwards(rs \ {rank}, u)

\* get_user_stats: walk the ranks from the highest level down, stop at the
\* first one whose conditions are met
RECURSIVE FirstMetDownwards(_, _)
FirstMetDownwards(rs, u) ==
  IF rs = {} THEN NoRank
  ELSE LET rank == CHOOSE r \in rs : \A o \in rs : o.level <= r.level
       IN IF check_conditions_met(rank, u) THEN rank
          ELSE FirstMetDownwards(rs \ {rank}, u)

\* get_user_stats()['current_rank']
current_rank(u) == FirstMetDownwards(RanksOf(u), u)

\* get_user_stats()['next_rank'], given the current rank
next_rank_after(cur, u) ==
  LET current_level == IF cur # NoRank THEN cur.level ELSE 0
      immediate == {r \in RanksOf(u) : r.level = current_level + 1}
      higher == {r \in RanksOf(u) : r.level > current_level}
  IN IF immediate # {} THEN CHOOSE r \in immediate : TRUE
     ELSE IF (cur = NoRank \/ ~cur.is_max_rank) /\ higher # {}
          THEN CHOOSE r \in higher : \A o \in higher : r.level <= o.level
          ELSE NoRank

\* get_user_stats()['next_rank']
next_rank(u) == next_rank_after(current_rank(u), u)

\* get_user_stats(): the two ranks the handlers read from it
get_user_stats(u) ==
  LET cur == current_rank(u)
  IN [current_rank |-> cur, next_rank |-> next_rank_after(cur, u)]

\* [c for c in next_rank.conditions if c.condition_type == 'total_xp']
candidates(stats) ==
  IF stats.next_rank # NoRank
  THEN {c \in ConditionsOf(stats.next_rank) : c.condition_type = "total_xp"}
  ELSE {}

\* ---------------------------------------------------------------- progress
\* progress_details of check_conditions_met: one (threshold, current) per
\* condition, one 'legacy_xp' item for a rank without conditions but with a
\* min_xp, nothing for a rank with neither
progress_details(rank, u) ==
  IF ConditionsOf(rank) # {}
  THEN {[id |-> c.id, threshold |-> c.threshold, current |-> check_condition(c, u).value] :
        c \in ConditionsOf(rank)}
  ELSE IF rank.min_xp # NoXp
       THEN {[id |-> NoId, threshold |-> rank.min_xp, current |-> User_get_total_xp(u)]}
       ELSE {}

\* min(1.0, float(current) / float(threshold)) with threshold = threshold or 1,
\* kept as a fraction num / den with den > 0
condition_share(info) ==
  LET threshold == IF info.threshold = 0 THEN 1 ELSE info.threshold
      num == IF threshold < 0 THEN 0 - info.current ELSE info.current
      den == Abs(threshold)
  IN IF num >= den THEN [num |-> 1, den |-> 1] ELSE [num |-> num, den |-> den]

\* int((total_progress / condition_count) * 100) for the shares of the items,
\* in exact arithmetic
mean_percent(share, infos) ==
  LET D == ProdFn([i \in infos |-> share[i].den], infos)
      N == SumFn([i \in infos |-> share[i].num * (D \div share[i].den)], infos)
  IN TruncDiv(100 * N, Cardinality(infos) * D)

\* get_user_stats()['progress_percent']
progress_percent(u) ==
  LET stats == get_user_stats(u)
      cur == stats.current_rank
      next == stats.next_rank
      infos == progress_details(next, u)
      prev_xp == IF cur # NoRank /\ cur.min_xp # NoXp THEN cur.min_xp ELSE 0
      xp_in_rank == User_get_total_xp(u) - prev_xp
      xp_needed == next.min_xp - prev_xp
  IN IF next # NoRank
     THEN IF infos # {}
          THEN mean_percent([i \in infos |-> condition_share(i)], infos)
          ELSE IF next.min_xp # NoXp
               THEN IF xp_needed > 0
                    THEN LET p == TruncDiv(xp_in_rank * 100, xp_needed)
                         IN IF p > 100 THEN 100 ELSE p
                    ELSE 0
               ELSE 0
     ELSE IF cur # NoRank /\ cur.is_max_rank THEN 100 ELSE 0

\* ------------------------------------------------------------------ streak
\* Streak(current_count=0, longest_count=0), created when the user has none
NewStreak ==
  [exists |-> TRUE, current_count |-> 0, longest_count |-> 0, last_activity_date |-> NoDate]

\* Streak.update_streak
update_streak(s, activity_date) ==
  LET cur == IF s.last_activity_date = NoDate THEN 1
             ELSE IF activity_date = s.last_activity_date THEN s.current_count
             ELSE IF activity_date - s.last_activity_date = 1 THEN s.current_count + 1
             ELSE IF activity_date - s.last_activity_date > 1 THEN 1
             ELSE s.current_count
  IN [exists |-> TRUE, current_count |-> cur,
      longest_count |-> IF cur > s.longest_count THEN cur ELSE s.longest_count,
      last_activity_date |-> activity_date]

\* the streak block of the handlers: fetch or create the row, then update it
TouchStreak(u, activity_date) ==
  [streak EXCEPT ![u] =
     update_streak(IF streak[u].exists THEN streak[u] ELSE NewStreak, activity_date)]

\* ------------------------------------------------------------------ inputs
\* (trackable id, value) pairs of a log request
LogInputs == { <<1, 0>>, <<2, 1000>> }

\* count field of the log-entry form
LogCounts == {1}

\* date field of the log-entry form
LogDates == {Today}

\* X-Requested-With of a request: XMLHttpRequest or not; the handlers read it
\* only when the next rank has two or more total_xp conditions
Headers(stats) == IF Cardinality(candidates(stats)) >= 2 THEN BOOLEAN ELSE {FALSE}

\* allocated_condition_id of a request: absent, or the id of a condition
ExplicitChoices == {NoId} \cup {c.id : c \in {x \in conditions : x.condition_type = "total_xp"}}

\* ------------------------------------------------- admin_trackable_action
\* an allocation block without the 'and not allocated_condition_id' guard:
\* it resolves the candidates even when the caller chose
trackable_action_allocation_unguarded(stats, u, action, explicit, xhr) ==
  IF action = "increment"
  THEN IF stats.next_rank # NoRank
       THEN IF Cardinality(candidates(stats)) >= 2
            THEN [ambiguous |-> xhr, alloc |-> explicit]
            ELSE IF Cardinality(candidates(stats)) = 1
                 THEN [ambiguous |-> FALSE, alloc |-> (CHOOSE c \in candidates(stats) : TRUE).id]
                 ELSE [ambiguous |-> FALSE, alloc |-> explicit]
       ELSE [ambiguous |-> FALSE, alloc |-> explicit]
  ELSE [ambiguous |-> FALSE, alloc |-> explicit]

\* the allocation block: (ambiguous response?, allocated_condition_id)
trackable_action_allocation(stats, u, action, explicit, xhr) ==
  IF action = "increment" /\ explicit = NoId
  THEN IF stats.next_rank # NoRank
       THEN IF Cardinality(candidates(stats)) >= 2
            THEN [ambiguous |-> xhr, alloc |-> explicit]
            ELSE IF Cardinality(candidates(stats)) = 1
                 THEN [ambiguous |-> FALSE, alloc |-> (CHOOSE c \in candidates(stats) : TRUE).id]
                 ELSE [ambiguous |-> FALSE, alloc |-> explicit]
       ELSE [ambiguous |-> FALSE, alloc |-> explicit]
  ELSE [ambiguous |-> FALSE, alloc |-> explicit]

\* a handler that resolves the allocation once more when it writes, from the
\* ledger of that moment, instead of keeping what it resolved when it read
admin_trackable_action_rereading(stats, u, t, action, value, explicit, xhr) ==
  /\ t.user_id = u
  /\ LET a == trackable_action_allocation(get_user_stats(u), u, action, explicit, xhr)
         todays == {e \in entries : e.user_id = u /\ e.trackable_type_id = t.id
                                    /\ e.date = Today}
     IN IF a.ambiguous
        THEN /\ last' = Outcome("admin_trackable_action", action, explicit,
                                "ambiguous", {c.id : c \in candidates(get_user_stats(u))}, "none", NoId)
             /\ UNCHANGED << entries, streak >>
        ELSE IF action = "decrement"
        THEN /\ entries' = IF todays = {} THEN entries
                           ELSE entries \ {CHOOSE e \in todays : \A o \in todays : o.id <= e.id}
             /\ last' = Outcome("admin_trackable_action", action, explicit,
                                "ok", {}, "none", NoId)
             /\ UNCHANGED streak
        ELSE /\ RoomFor(entries)
             /\ entries' = entries \cup
                  {[id |-> NewId(entries), user_id |-> u, trackable_type_id |-> t.id,
                    date |-> Today, count |-> 1, value |-> value,
                    allocated_condition_id |-> a.alloc]}
             /\ streak' = TouchStreak(u, Today)
             /\ last' = Outcome("admin_trackable_action", action, explicit,
                                "ok", {}, "entry", NewId(entries))
  /\ UNCHANGED << ranks, conditions, completions, daily_log >>

admin_trackable_action(stats, u, t, action, value, explicit, xhr) ==
  /\ t.user_id = u
  /\ LET a == trackable_action_allocation(stats, u, action, explicit, xhr)
         todays == {e \in entries : e.user_id = u /\ e.trackable_type_id = t.id
                                    /\ e.date = Today}
     IN IF a.ambiguous
        THEN /\ last' = Outcome("admin_trackable_action", action, explicit,
                                "ambiguous", {c.id : c \in candidates(stats)}, "none", NoId)
             /\ UNCHANGED << entries, streak >>
        ELSE IF action = "decrement"
        THEN /\ entries' = IF todays = {} THEN entries
                           ELSE entries \ {CHOOSE e \in todays : \A o \in todays : o.id <= e.id}
             /\ last' = Outcome("admin_trackable_action", action, explicit,
                                "ok", {}, "none", NoId)
             /\ UNCHANGED streak
        ELSE /\ RoomFor(entries)
             /\ entries' = entries \cup
                  {[id |-> NewId(entries), user_id |-> u, trackable_type_id |-> t.id,
                    date |-> Today, count |-> 1, value |-> value,
                    allocated_condition_id |-> a.alloc]}
             /\ streak' = TouchStreak(u, Today)
             /\ last' = Outcome("admin_trackable_action", action, explicit,
                                "ok", {}, "entry", NewId(entries))
  /\ UNCHANGED << ranks, conditions, completions, daily_log >>

\* --------------------------------------------------------- admin_log_entry
\* POST of the log-entry form
admin_log_entry(u, tid, d, count, value, explicit) ==
  /\ RoomFor(entries)
  /\ entries' = entries \cup
       {[id |-> NewId(entries), user_id |-> u, trackable_type_id |-> tid,
         date |-> d, count |-> count, value |-> value,
         allocated_condition_id |-> explicit]}
  /\ streak' = TouchStreak(u, d)
  /\ last' = Outcome("admin_log_entry", "increment", explicit,
                     "ok", {}, "entry", NewId(entries))
  /\ UNCHANGED << ranks, conditions, completions, daily_log >>

\* --------------------------------------------------------- admin_quick_log
admin_quick_log(stats, u, t, value, xhr) ==
  /\ t.user_id = u
  /\ IF stats.next_rank # NoRank /\ \E c \in ConditionsOf(stats.next_rank) : c.is_bucket
     THEN /\ last' = Outcome("admin_quick_log", "increment", NoId,
                             "redirect", {}, "none", NoId)
          /\ UNCHANGED << entries, streak >>
     ELSE /\ RoomFor(entries)
          /\ entries' = entries \cup
               {[id |-> NewId(entries), user_id |-> u, trackable_type_id |-> t.id,
                 date |-> Today, count |-> 1, value |-> value,
                 allocated_condition_id |-> NoId]}
          /\ streak' = TouchStreak(u, Today)
          /\ last' = Outcome("admin_quick_log", "increment", NoId,
                             "ok", {}, "entry", NewId(entries))
  /\ UNCHANGED << ranks, conditions, completions, daily_log >>


\* ------------------------------------------------------------------- tasks
\* TaskCompletion.query.filter_by(user_id, task_id, date=today)
TodayCompletions(u, task) ==
  {c \in completions : c.user_id = u /\ c.task_id = task.id /\ c.date = Today}

\* UserDailyTask.get_today_completion_count
get_today_completion_count(task) ==
  Cardinality({c \in completions : c.task_id = task.id /\ c.date = Today})

NewCompletion(u, task, xp, alloc) ==
  [id |-> NewId(completions), user_id |-> u, task_id |-> task.id, date |-> Today,
   xp_earned |-> xp, allocated_condition_id |-> alloc]

\* sum(TaskCompletion.xp_earned) of the user's completions of today
total_task_xp(u, cs) ==
  LET todays == {c \in cs : c.user_id = u /\ c.date = Today}
  IN SumFn([c \in todays |-> c.xp_earned], todays)

\* -------------------------------------------------------- admin_task_action
\* should_check of admin_task_action
task_action_should_check(u, task, action) ==
  \/ action = "increment"
  \/ task.task_type = "normal" /\ action = "toggle" /\ TodayCompletions(u, task) = {}

\* the allocation block: (ambiguous response?, allocated_condition_id)
task_action_allocation(stats, u, task, action, explicit, xhr) ==
  IF task_action_should_check(u, task, action) /\ explicit = NoId
  THEN IF stats.next_rank # NoRank
       THEN IF Cardinality(candidates(stats)) >= 2
            THEN [ambiguous |-> xhr, alloc |-> explicit]
            ELSE IF Cardinality(candidates(stats)) = 1
                 THEN [ambiguous |-> FALSE, alloc |-> (CHOOSE c \in candidates(stats) : TRUE).id]
                 ELSE [ambiguous |-> FALSE, alloc |-> explicit]
       ELSE [ambiguous |-> FALSE, alloc |-> explicit]
  ELSE [ambiguous |-> FALSE, alloc |-> explicit]

\* a completion block that pays xp_value on every count of a count task,
\* not only on the one that reaches target_count
task_action_completions_flat(u, task, action, alloc) ==
  LET todays == TodayCompletions(u, task)
      current_count == get_today_completion_count(task)
      none == [rows |-> completions, row |-> NoId]
  IN IF task.task_type = "count"
     THEN IF action = "decrement"
          THEN IF current_count > 0 /\ todays # {}
               THEN [rows |-> completions \
                        {CHOOSE c \in todays : \A o \in todays : o.id <= c.id},
                     row |-> NoId]
               ELSE none
          ELSE IF current_count < task.target_count
               THEN LET xp_e == IF task.xp_per_count > 0 THEN task.xp_per_count
                                ELSE task.xp_value
                    IN [rows |-> completions \cup {NewCompletion(u, task, xp_e, alloc)},
                        row |-> NewId(completions)]
               ELSE none
     ELSE IF todays # {}
          THEN [rows |-> completions \
                   {CHOOSE c \in todays : \A o \in todays : c.id <= o.id},
                row |-> NoId]
          ELSE [rows |-> completions \cup {NewCompletion(u, task, task.xp_value, alloc)},
                row |-> NewId(completions)]

\* the completion block: the table after it, and the id of the row it added
task_action_completions(u, task, action, alloc) ==
  LET todays == TodayCompletions(u, task)
      current_count == get_today_completion_count(task)
      none == [rows |-> completions, row |-> NoId]
  IN IF task.task_type = "count"
     THEN IF action = "decrement"
          THEN IF current_count > 0 /\ todays # {}
               THEN [rows |-> completions \
                        {CHOOSE c \in todays : \A o \in todays : o.id <= c.id},
                     row |-> NoId]
               ELSE none
          ELSE IF current_count < task.target_count
               THEN LET xp_e == IF task.xp_per_count > 0 THEN task.xp_per_count
                                ELSE IF current_count + 1 >= task.target_count
                                     THEN task.xp_value ELSE 0
                    IN [rows |-> completions \cup {NewCompletion(u, task, xp_e, alloc)},
                        row |-> NewId(completions)]
               ELSE none
     ELSE IF todays # {}
          THEN [rows |-> completions \
                   {CHOOSE c \in todays : \A o \in todays : c.id <= o.id},
                row |-> NoId]
          ELSE [rows |-> completions \cup {NewCompletion(u, task, task.xp_value, alloc)},
                row |-> NewId(completions)]

admin_task_action(stats, u, task, action, explicit, xhr) ==
  /\ task.user_id = u
  /\ LET a == task_action_allocation(stats, u, task, action, explicit, xhr)
         step == task_action_completions(u, task, action, a.alloc)
         total == total_task_xp(u, step.rows)
     IN IF a.ambiguous
        THEN /\ last' = Outcome("admin_task_action", action, explicit,
                                "ambiguous", {c.id : c \in candidates(stats)}, "none", NoId)
             /\ UNCHANGED << completions, daily_log, streak >>
        ELSE /\ step.row # NoId => RoomFor(completions)
             /\ completions' = step.rows
             /\ daily_log' = [daily_log EXCEPT ![u] =
                  [exists |-> TRUE, total_xp |-> total, goal_met |-> total >= daily_xp_goal]]
             /\ streak' = TouchStreak(u, Today)
             /\ last' = Outcome("admin_task_action", action, explicit, "ok", {},
                                IF step.row # NoId THEN "completion" ELSE "none", step.row)
  /\ UNCHANGED << ranks, conditions, entries >>

\* ------------------------------------------------- admin_toggle_daily_task
\* should_check_allocation of admin_toggle_daily_task
toggle_daily_task_should_check(u, task, action) ==
  \/ action = "increment"
  \/ task.task_type = "normal" /\ action = "toggle" /\ TodayCompletions(u, task) = {}

\* the allocation block: (ambiguous response?, allocated_condition_id)
toggle_daily_task_allocation(stats, u, task, action, explicit, xhr) ==
  IF toggle_daily_task_should_check(u, task, action) /\ explicit = NoId
  THEN IF stats.next_rank # NoRank
       THEN IF Cardinality(candidates(stats)) >= 2
            THEN [ambiguous |-> xhr, alloc |-> explicit]
            ELSE [ambiguous |-> FALSE, alloc |-> explicit]
       ELSE [ambiguous |-> FALSE, alloc |-> explicit]
  ELSE [ambiguous |-> FALSE, alloc |-> explicit]

\* the completion block: the table after it, and the id of the row it added
toggle_daily_task_completions(u, task, action, alloc) ==
  LET todays == TodayCompletions(u, task)
      current_count == get_today_completion_count(task)
      none == [rows |-> completions, row |-> NoId]
  IN IF task.task_type = "count"
     THEN IF action = "decrement"
          THEN IF current_count > 0 /\ todays # {}
               THEN [rows |-> completions \
                        {CHOOSE c \in todays : \A o \in todays : o.id <= c.id},
                     row |-> NoId]
               ELSE none
          ELSE IF current_count < task.target_count
               THEN LET xp_e == IF task.xp_per_count > 0 THEN task.xp_per_count
                                ELSE IF current_count + 1 >= task.target_count
                                     THEN task.xp_value ELSE 0
                    IN [rows |-> completions \cup {NewCompletion(u, task, xp_e, alloc)},
                        row |-> NewId(completions)]
               ELSE none
     ELSE IF todays # {}
          THEN [rows |-> completions \
                   {CHOOSE c \in todays : \A o \in todays : c.id <= o.id},
                row |-> NoId]
          ELSE [rows |-> completions \cup {NewCompletion(u, task, task.xp_value, alloc)},
                row |-> NewId(completions)]

admin_toggle_daily_task(stats, u, task, action, explicit, xhr) ==
  /\ task.user_id = u
  /\ LET a == toggle_daily_task_allocation(stats, u, task, action, explicit, xhr)
         step == toggle_daily_task_completions(u, task, action, a.alloc)
         total == total_task_xp(u, step.rows)
         completed_tasks == {c \in step.rows : c.user_id = u /\ c.date = Today}
     IN IF a.ambiguous
        THEN /\ last' = Outcome("admin_toggle_daily_task", action, explicit,
                                "ambiguous", {c.id : c \in candidates(stats)}, "none", NoId)
             /\ UNCHANGED << completions, daily_log, streak >>
        ELSE /\ step.row # NoId => RoomFor(completions)
             /\ completions' = step.rows
             /\ daily_log' = [daily_log EXCEPT ![u] =
                  [exists |-> TRUE, total_xp |-> total,
                   goal_met |-> IF total >= daily_xp_goal THEN TRUE
                                ELSE IF daily_log[u].exists THEN daily_log[u].goal_met
                                ELSE FALSE]]
             /\ streak' = IF completed_tasks # {} THEN TouchStreak(u, Today) ELSE streak
             /\ last' = Outcome("admin_toggle_daily_task", action, explicit, "ok", {},
                                IF step.row # NoId THEN "completion" ELSE "none", step.row)
  /\ UNCHANGED << ranks, conditions, entries >>

\* ------------------------------------------------------------ rank admin
\* a condition of conditions_json: type, threshold, is_bucket, trackable_slug
FormCond(type, thr, bucket, slug) ==
  [condition_type |-> type, threshold |-> thr, is_bucket |-> bucket, trackable_slug |-> slug]

\* the rank form as posted: the two-bucket rank saved again as it is, and the
\* same rank reduced to one global total_xp condition
RankForms ==
  { [level |-> 2, min_xp |-> NoXp, is_max_rank |-> FALSE,
     conditions |-> << FormCond("total_xp", 50, TRUE, ""),
                       FormCond("total_xp", 100, TRUE, "") >>],
    [level |-> 2, min_xp |-> NoXp, is_max_rank |-> FALSE,
     conditions |-> << FormCond("total_xp", 50, FALSE, "") >>] }

\* the 'ranks' list of a backup file: one rank with one bucketed condition
BackupRanks ==
  { [level |-> 2,
     conditions |-> << FormCond("total_xp", 50, TRUE, "") >>] }

\* the loop that adds one RankCondition per posted condition; each row gets
\* the next rowid of the table
RECURSIVE add_conditions(_, _, _)
add_conditions(table, rank_id, conds) ==
  IF conds = << >> THEN table
  ELSE add_conditions(
         table \cup {Cond(NewId(table), rank_id, Head(conds).condition_type,
                          Head(conds).threshold, Head(conds).is_bucket,
                          Head(conds).trackable_slug)},
         rank_id, Tail(conds))

\* RankCondition.query.filter_by(rank_id=rank.id).delete(), then the loop
rebuild_conditions(rank_id, conds) ==
  add_conditions({c \in conditions : c.rank_id # rank_id}, rank_id, conds)

\* POST of the rank form for an existing rank
admin_rank_edit(u, rank, form) ==
  /\ rank.user_id = u
  /\ \A c \in rebuild_conditions(rank.id, form.conditions) : c.id <= MaxCondId
  /\ ranks' = (ranks \ {rank}) \cup
       {[rank EXCEPT !.level = form.level, !.min_xp = form.min_xp,
                     !.is_max_rank = form.is_max_rank]}
  /\ conditions' = rebuild_conditions(rank.id, form.conditions)
  /\ last' = Outcome("admin_rank_edit", "edit", NoId, "ok",
                     {c.id : c \in {x \in conditions' : x.rank_id = rank.id}},
                     "rank", rank.id)
  /\ UNCHANGED << entries, completions, daily_log, streak >>

\* db.session.delete(rank): the rank and, by the cascade, its conditions
admin_rank_delete(u, rank) ==
  /\ rank.user_id = u
  /\ ranks' = ranks \ {rank}
  /\ conditions' = {c \in conditions : c.rank_id # rank.id}
  /\ last' = Outcome("admin_rank_delete", "delete", NoId, "ok", {}, "rank", rank.id)
  /\ UNCHANGED << entries, completions, daily_log, streak >>

\* the 'Ranks & Conditions' part of admin_import_settings, for one rank of
\* the backup: find the rank of that level or create it, then rebuild its
\* conditions
admin_import_settings(u, r_data) ==
  LET found == {r \in ranks : r.user_id = u /\ r.level = r_data.level}
      rank == IF found # {} THEN CHOOSE r \in found : \A o \in found : r.id <= o.id
              ELSE [id |-> NewId(ranks), user_id |-> u, level |-> r_data.level,
                    min_xp |-> NoXp, is_max_rank |-> FALSE]
  IN /\ rank.id <= MaxRankId
     /\ \A c \in rebuild_conditions(rank.id, r_data.conditions) : c.id <= MaxCondId
     /\ ranks' = ranks \cup {rank}
     /\ conditions' = rebuild_conditions(rank.id, r_data.conditions)
     /\ last' = Outcome("admin_import_settings", "import", NoId, "ok",
                        {c.id : c \in {x \in conditions' : x.rank_id = rank.id}},
                        "rank", rank.id)
     /\ UNCHANGED << entries, completions, daily_log, streak >>

\* --------------------------------------------------------------- migration
\* migrate_xp_buckets.py: the ranks by ascending level, the first one whose
\* conditions are not met
RECURSIVE FirstUnmetUpwards(_, _)
FirstUnmetUpwards(rs, u) ==
  IF rs = {} THEN NoRank
  ELSE LET rank == CHOOSE r \in rs : \A o \in rs : r.level <= o.level
       IN IF ~check_conditions_met(rank, u) THEN rank
          ELSE FirstUnmetUpwards(rs \ {rank}, u)

\* [c for c in next_rank.conditions if c.condition_type == 'total_xp']
xp_conditions(rank) ==
  IF rank # NoRank
  THEN {c \in ConditionsOf(rank) : c.condition_type = "total_xp"}
  ELSE {}

\* the TrackableEntry update that skips the allocated_condition_id=None
\* filter: every entry of the user goes to the target
migrate_entries_unfiltered(u, target) ==
  { IF e.user_id = u
    THEN [e EXCEPT !.allocated_condition_id = target.id] ELSE e : e \in entries }

\* TrackableEntry.query.filter_by(user_id, allocated_condition_id=None).update
migrate_entries(u, target) ==
  { IF e.user_id = u /\ e.allocated_condition_id = NoId
    THEN [e EXCEPT !.allocated_condition_id = target.id] ELSE e : e \in entries }

\* a migration without the TaskCompletion update
migrate_completions_skipped(u, target) == completions

\* TaskCompletion.query.filter_by(user_id, allocated_condition_id=None).update
migrate_completions(u, target) ==
  { IF c.user_id = u /\ c.allocated_condition_id = NoId
    THEN [c EXCEPT !.allocated_condition_id = target.id] ELSE c : c \in completions }

\* the conditions xp_conditions[0] can be: rank.conditions is loaded without
\* an order_by, so any total_xp condition of the rank can come first
first_listed(u) == xp_conditions(FirstUnmetUpwards(RanksOf(u), u))

\* migrate(), for one user; first is xp_conditions[0]
migrate(u, first) ==
  LET next_rank_ == FirstUnmetUpwards(RanksOf(u), u)
      xs == xp_conditions(next_rank_)
      run == IF last.op = "migrate" THEN "rerun" ELSE "run"
  IN /\ IF xs # {}
        THEN /\ first \in xs
             /\ conditions' = { IF c \in xs THEN [c EXCEPT !.is_bucket = TRUE] ELSE c :
                                c \in conditions }
             /\ entries' = migrate_entries(u, first)
             /\ completions' = migrate_completions(u, first)
             /\ last' = Outcome("migrate", run, NoId, "ok", {c.id : c \in xs},
                                "condition", first.id)
        ELSE /\ first = NoId
             /\ last' = Outcome("migrate", run, NoId, "none", {}, "none", NoId)
             /\ UNCHANGED << conditions, entries, completions >>
     /\ UNCHANGED << ranks, daily_log, streak >>

\* fix_buckets.py: a total_xp condition with a total_xp sibling on its rank
\* becomes a bucket (the conditions of the model carry no custom_name)
fix_buckets ==
  LET should_be_bucket(c) ==
        Cardinality({x \in conditions : x.rank_id = c.rank_id
                                        /\ x.condition_type = "total_xp"}) > 1
      fixed == {c \in conditions : c.condition_type = "total_xp"
                                   /\ should_be_bucket(c) /\ ~c.is_bucket}
  IN /\ conditions' = { IF c \in fixed THEN [c EXCEPT !.is_bucket = TRUE] ELSE c :
                        c \in conditions }
     /\ last' = Outcome("fix_buckets", "run", NoId,
                        IF fixed # {} THEN "ok" ELSE "none", {c.id : c \in fixed},
                        "none", NoId)
     /\ UNCHANGED << ranks, entries, completions, daily_log, streak >>

\* ------------------------------------------------------------ specification
Requests == {"increment", "decrement"}

TaskRequests == {"toggle", "increment", "decrement"}

NoOutcome == Outcome("none", "none", NoId, "none", {}, "none", NoId)

\* the ledger is empty, no request was made yet
InitLedger ==
  /\ entries = {}
  /\ completions = {}
  /\ daily_log = [u \in Users |-> [exists |-> FALSE, total_xp |-> 0, goal_met |-> FALSE]]
  /\ streak = [u \in Users |->
       [exists |-> FALSE, current_count |-> 0, longest_count |-> 0,
        last_activity_date |-> NoDate]]
  /\ last = NoOutcome
  /\ inflight = NoRequests

Init ==
  /\ \E l \in AllocationLadders : ranks = l.ranks /\ conditions = l.conditions
  /\ InitLedger

InitRanks ==
  /\ \E l \in Ladders : ranks = l.ranks /\ conditions = l.conditions
  /\ InitLedger

TrackableAction ==
  /\ \E u \in Users :
       LET stats == get_user_stats(u)
       IN \E inp \in LogInputs, action \in Requests,
             explicit \in ExplicitChoices, xhr \in Headers(stats) :
            admin_trackable_action(stats, u, TrackableById(inp[1]), action, inp[2],
                                   explicit, xhr)
  /\ UNCHANGED inflight

LogEntry ==
  /\ \E u \in Users, inp \in LogInputs, d \in LogDates, count \in LogCounts,
        explicit \in ExplicitChoices :
       admin_log_entry(u, inp[1], d, count, inp[2], explicit)
  /\ UNCHANGED inflight

QuickLog ==
  /\ \E u \in Users :
       LET stats == get_user_stats(u)
       IN \E inp \in LogInputs, xhr \in Headers(stats) :
            admin_quick_log(stats, u, TrackableById(inp[1]), inp[2], xhr)
  /\ UNCHANGED inflight

TaskAction ==
  /\ \E u \in Users :
       LET stats == get_user_stats(u)
       IN \E task \in Tasks, action \in TaskRequests,
             explicit \in ExplicitChoices, xhr \in Headers(stats) :
            admin_task_action(stats, u, task, action, explicit, xhr)
  /\ UNCHANGED inflight

ToggleDailyTask ==
  /\ \E u \in Users :
       LET stats == get_user_stats(u)
       IN \E task \in Tasks, action \in TaskRequests,
             explicit \in ExplicitChoices, xhr \in Headers(stats) :
            admin_toggle_daily_task(stats, u, task, action, explicit, xhr)
  /\ UNCHANGED inflight

Next ==
  \/ TrackableAction
  \/ LogEntry
  \/ QuickLog
  \/ TaskAction
  \/ ToggleDailyTask

Spec == Init /\ [][Next]_vars

\* every ladder, under the handlers that add XP
NextRanks ==
  \/ TrackableAction
  \/ TaskAction

SpecRanks == InitRanks /\ [][NextRanks]_vars


\* the rank administration next to the trackable log: conditions come and go
\* under the entries allocated to them
\* 8: a first rank and the two-bucket rank, whose conditions hold the highest ids
LadderEdit ==
  [ranks |-> { Rank(1, 1, 0, FALSE), Rank(2, 2, NoXp, FALSE) },
   conditions |-> { Cond(1, 2, "total_xp", 50, TRUE, ""),
                    Cond(2, 2, "total_xp", 100, TRUE, "") }]

InitAdmin ==
  /\ ranks = LadderEdit.ranks
  /\ conditions = LadderEdit.conditions
  /\ InitLedger

RankEdit ==
  /\ \E u \in Users, rank \in ranks, form \in RankForms : admin_rank_edit(u, rank, form)
  /\ UNCHANGED inflight

RankDelete ==
  /\ \E u \in Users, rank \in ranks : admin_rank_delete(u, rank)
  /\ UNCHANGED inflight

ImportSettings ==
  /\ \E u \in Users, r_data \in BackupRanks : admin_import_settings(u, r_data)
  /\ UNCHANGED inflight

NextAdmin ==
  \/ TrackableAction
  \/ RankEdit
  \/ RankDelete
  \/ ImportSettings

SpecAdmin == InitAdmin /\ [][NextAdmin]_vars

\* the bucket migration over a ledger logged before it
\* 9: the worked scenario: a rank with two global total_xp conditions
LadderGold ==
  [ranks |-> { Rank(1, 1, NoXp, FALSE), Rank(2, 2, NoXp, FALSE) },
   conditions |-> { Cond(1, 2, "total_xp", 500, FALSE, ""),
                    Cond(2, 2, "total_xp", 300, FALSE, "") }]

\* 10: a global total_xp condition next to another kind, and one on another rank
LadderMixed ==
  [ranks |-> { Rank(1, 1, 0, FALSE), Rank(2, 2, NoXp, FALSE), Rank(3, 3, NoXp, FALSE) },
   conditions |-> { Cond(1, 2, "total_xp", 50, FALSE, ""),
                    Cond(2, 2, "trackable_count", 1, FALSE, "blog_post"),
                    Cond(3, 3, "total_xp", 150, FALSE, "") }]

MigrationLadders == { LadderGold, LadderMixed }

InitMigrate ==
  /\ \E l \in MigrationLadders : ranks = l.ranks /\ conditions = l.conditions
  /\ InitLedger

Migrate ==
  /\ \E u \in Users :
       \E first \in (IF first_listed(u) # {} THEN first_listed(u) ELSE {NoId}) :
         migrate(u, first)
  /\ UNCHANGED inflight

FixBuckets ==
  /\ fix_buckets
  /\ UNCHANGED inflight

NextMigrate ==
  \/ TrackableAction
  \/ TaskAction
  \/ Migrate
  \/ FixBuckets

SpecMigrate == InitMigrate /\ [][NextMigrate]_vars

\* the progress bar over the ladders whose next rank has a legacy min_xp,
\* several conditions, or thresholds of zero and below
\* 11: the next rank has a threshold of 0 and a negative one
LadderZero ==
  [ranks |-> { Rank(1, 1, NoXp, FALSE), Rank(2, 2, NoXp, FALSE) },
   conditions |-> { Cond(1, 2, "total_xp", 0, TRUE, ""),
                    Cond(2, 2, "total_xp", 100, TRUE, ""),
                    Cond(3, 2, "tasks_completed", 0 - 2, FALSE, "") }]

ProgressLadders == { LadderLegacy, LadderBuckets, LadderZero }

InitProgress ==
  /\ \E l \in ProgressLadders : ranks = l.ranks /\ conditions = l.conditions
  /\ InitLedger

SpecProgress == InitProgress /\ [][NextRanks]_vars

\* the log-entry form with the dates and counts its parsing accepts
\* 12: one condition of each kind the entries feed
LadderKinds ==
  [ranks |-> { Rank(1, 1, NoXp, FALSE), Rank(2, 2, NoXp, FALSE) },
   conditions |-> { Cond(1, 2, "total_xp", 50, FALSE, ""),
                    Cond(2, 2, "total_xp", 50, TRUE, ""),
                    Cond(3, 2, "trackable_xp", 50, FALSE, "blog_post"),
                    Cond(4, 2, "trackable_count", 1, FALSE, "blog_post") }]

\* count field of the form: int(request.form.get('count', 1))
FormCounts == { 0 - 1, 1 }

\* date field of the form: yesterday, today and the two days after
FormDates == { Today - 1, Today, Today + 1, Today + 2 }

\* 13: the kinds admin_rank_add stores and check_condition has no branch for
\*     ('custom_xp' and 'custom_count', which the form flags is_bucket), and a
\*     trackable kind saved without a trackable_slug
LadderCustom ==
  [ranks |-> { Rank(1, 1, NoXp, FALSE), Rank(2, 2, NoXp, FALSE), Rank(3, 3, NoXp, FALSE) },
   conditions |-> { Cond(1, 2, "custom_xp", 0, TRUE, ""),
                    Cond(2, 2, "trackable_xp", 0, FALSE, ""),
                    Cond(3, 3, "custom_count", 1, TRUE, "") }]

FormLadders == { LadderKinds, LadderCustom }

InitForm ==
  /\ \E l \in FormLadders : ranks = l.ranks /\ conditions = l.conditions
  /\ InitLedger

LogEntryForm ==
  /\ \E u \in Users, inp \in LogInputs, d \in FormDates, count \in FormCounts,
        explicit \in ExplicitChoices :
       admin_log_entry(u, inp[1], d, count, inp[2], explicit)
  /\ UNCHANGED inflight

NextForm ==
  \/ LogEntryForm
  \/ TrackableAction

SpecForm == InitForm /\ [][NextForm]_vars

\* the two task endpoints over a task list that can reach the daily goal
\* the tasks above and one added with admin_daily_task_add: xp_value 50
GoalTasks ==
  Tasks \cup
  { [id |-> 3, user_id |-> 1, slug |-> "publish", task_type |-> "normal",
     target_count |-> 1, xp_value |-> 50, xp_per_count |-> 0] }

TaskLadders == { LadderLegacy, LadderSingle }

InitTasks ==
  /\ \E l \in TaskLadders : ranks = l.ranks /\ conditions = l.conditions
  /\ InitLedger

TaskActionGoal ==
  /\ \E u \in Users :
       LET stats == get_user_stats(u)
       IN \E task \in GoalTasks, action \in TaskRequests,
             explicit \in ExplicitChoices, xhr \in Headers(stats) :
            admin_task_action(stats, u, task, action, explicit, xhr)
  /\ UNCHANGED inflight

ToggleDailyTaskGoal ==
  /\ \E u \in Users :
       LET stats == get_user_stats(u)
       IN \E task \in GoalTasks, action \in TaskRequests,
             explicit \in ExplicitChoices, xhr \in Headers(stats) :
            admin_toggle_daily_task(stats, u, task, action, explicit, xhr)
  /\ UNCHANGED inflight

NextTasks ==
  \/ TaskActionGoal
  \/ ToggleDailyTaskGoal

SpecTasks == InitTasks /\ [][NextTasks]_vars

\* the trackable counter alone: increments and the decrements that undo them
\* 14: streak conditions next to an entry count
LadderStreak ==
  [ranks |-> { Rank(1, 1, NoXp, FALSE), Rank(2, 2, NoXp, FALSE) },
   conditions |-> { Cond(1, 2, "streak_current", 2, FALSE, ""),
                    Cond(2, 2, "streak_longest", 2, FALSE, ""),
                    Cond(3, 2, "trackable_count", 2, FALSE, "blog_post") }]

UndoLadders == { LadderStreak, LadderKinds, LadderBuckets }

InitUndo ==
  /\ \E l \in UndoLadders : ranks = l.ranks /\ conditions = l.conditions
  /\ InitLedger

NextUndo == TrackableAction

SpecUndo == InitUndo /\ [][NextUndo]_vars

\* two accounts on one database: the account of Users, and a second one
\* whose requests run next to it
OtherUser == 2

CrossUsers == Users \cup {OtherUser}

\* 15: three ranks of the first account and one rank of the second
LadderCross ==
  [ranks |-> { Rank(1, 1, NoXp, FALSE), Rank(2, 2, NoXp, FALSE), Rank(3, 3, NoXp, FALSE),
               [Rank(4, 1, NoXp, FALSE) EXCEPT !.user_id = OtherUser] },
   conditions |-> { Cond(1, 2, "trackable_count", 1, FALSE, "blog_post"),
                    Cond(2, 3, "total_xp", 50, TRUE, ""),
                    Cond(3, 4, "total_xp", 50, TRUE, "") }]

InitCross ==
  /\ ranks = LadderCross.ranks
  /\ conditions = LadderCross.conditions
  /\ entries = {}
  /\ completions = {}
  /\ daily_log = [u \in CrossUsers |-> [exists |-> FALSE, total_xp |-> 0, goal_met |-> FALSE]]
  /\ streak = [u \in CrossUsers |->
       [exists |-> FALSE, current_count |-> 0, longest_count |-> 0,
        last_activity_date |-> NoDate]]
  /\ last = NoOutcome
  /\ inflight = NoRequests

\* trackable_id field of the log-entry form as the second account posts it:
\* its own blog_post type, or the id of the first account's
CrossTrackableIds == { 1, 4 }

\* the second account's requests
CrossTrackableAction ==
  /\ LET stats == get_user_stats(OtherUser)
     IN \E action \in Requests, explicit \in ExplicitChoices, xhr \in Headers(stats) :
          admin_trackable_action(stats, OtherUser, TrackableById(4), action, 0, explicit, xhr)
  /\ UNCHANGED inflight

CrossLogEntry ==
  /\ \E tid \in CrossTrackableIds, explicit \in ExplicitChoices :
       admin_log_entry(OtherUser, tid, Today, 1, 0, explicit)
  /\ UNCHANGED inflight

CrossRankEdit ==
  /\ \E rank \in ranks, form \in RankForms : admin_rank_edit(OtherUser, rank, form)
  /\ UNCHANGED inflight

NextCross ==
  \/ TrackableAction
  \/ CrossTrackableAction
  \/ CrossLogEntry
  \/ CrossRankEdit

SpecCross == InitCross /\ [][NextCross]_vars

\* two log requests of one account served at the same moment: each one reads
\* (get_user_stats and the candidates of the next rank), and writes and
\* commits in a later step, after the other may have committed
RaceRequests == { 1, 2 }

\* 16: one total_xp bucket on each of two ranks, so that one entry moves the
\*     next rank and with it the single candidate
LadderRace ==
  [ranks |-> { Rank(1, 1, NoXp, FALSE), Rank(2, 2, NoXp, FALSE), Rank(3, 3, NoXp, FALSE) },
   conditions |-> { Cond(1, 2, "total_xp", 50, TRUE, ""),
                    Cond(2, 3, "total_xp", 100, TRUE, "") }]

RaceLadders == { LadderRace, LadderBuckets }

\* a request that has not read anything yet
NewRequest ==
  [phase |-> "new", user |-> NoId,
   stats |-> [current_rank |-> NoRank, next_rank |-> NoRank],
   trackable |-> NoId, value |-> 0, explicit |-> NoId, xhr |-> FALSE,
   candidates |-> {}, status |-> "none", row |-> NoId]

InitRace ==
  /\ \E l \in RaceLadders : ranks = l.ranks /\ conditions = l.conditions
  /\ entries = {}
  /\ completions = {}
  /\ daily_log = [u \in Users |-> [exists |-> FALSE, total_xp |-> 0, goal_met |-> FALSE]]
  /\ streak = [u \in Users |->
       [exists |-> FALSE, current_count |-> 0, longest_count |-> 0,
        last_activity_date |-> NoDate]]
  /\ last = NoOutcome
  /\ inflight = [r \in RaceRequests |-> NewRequest]

\* the request parses its form and runs the queries of the allocation block;
\* nothing is written yet
RaceRead(r) ==
  /\ inflight[r].phase = "new"
  /\ \E u \in Users :
       LET stats == get_user_stats(u)
       IN \E inp \in LogInputs, explicit \in ExplicitChoices, xhr \in Headers(stats) :
            inflight' = [inflight EXCEPT ![r] =
              [phase |-> "read", user |-> u, stats |-> stats,
               trackable |-> inp[1], value |-> inp[2], explicit |-> explicit,
               xhr |-> xhr,
               candidates |-> IF explicit = NoId
                              THEN {c.id : c \in candidates(stats)} ELSE {},
               status |-> "none", row |-> NoId]]
  /\ UNCHANGED << ranks, conditions, entries, completions, daily_log, streak, last >>

\* the rest of admin_trackable_action with what the request read: the
\* answer, or the insert, the streak update and the commit
RaceCommit(r) ==
  /\ inflight[r].phase = "read"
  /\ admin_trackable_action(inflight[r].stats, inflight[r].user,
                            TrackableById(inflight[r].trackable), "increment",
                            inflight[r].value, inflight[r].explicit, inflight[r].xhr)
  /\ inflight' = [inflight EXCEPT ![r].phase = "done",
                                  ![r].status = last'.status,
                                  ![r].row = last'.row]

NextRace ==
  \/ \E r \in RaceRequests : RaceRead(r)
  \/ \E r \in RaceRequests : RaceCommit(r)

SpecRace == InitRace /\ [][NextRace]_vars

\* ================================================================== claims
\* the user whose requests the claims follow
U == CHOOSE u \in Users : TRUE

\* rows a step added
NewEntries == entries' \ entries

NewCompletions == completions' \ completions

NewRows == NewEntries \cup NewCompletions

\* the step is a request that logs XP: an increment through any handler, or
\* a toggle that switched a task on
LogRequest ==
  /\ last'.op # "none"
  /\ \/ last'.action = "increment"
     \/ last'.action = "toggle" /\ NewCompletions # {}

\* ids of the total_xp conditions of the next rank, before the step
CandidateIds == {c.id : c \in candidates(get_user_stats(U))}

\* C1 -- ambiguity gate: a log request without an explicit choice, made while
\* the next rank has two or more total_xp conditions, is answered 'ambiguous'
\* with exactly those conditions and writes no ledger row, whatever the
\* handler and the request headers.
C1_AmbiguityGate ==
  [][ (LogRequest /\ last'.explicit = NoId /\ Cardinality(CandidateIds) >= 2)
      => /\ last'.status = "ambiguous"
         /\ last'.conditions = CandidateIds
         /\ entries' = entries
         /\ completions' = completions ]_vars

\* the request went through one of the three action endpoints
ActionEndpoints ==
  {"admin_trackable_action", "admin_task_action", "admin_toggle_daily_task"}

\* the step switched a task on or incremented it as the claims mean it: an
\* increment, or the toggle of a normal task
TaskOf(c) == CHOOSE t \in Tasks : t.id = c.task_id

IncrementOrToggleOn ==
  \/ last'.action = "increment"
  \/ /\ last'.action = "toggle"
     /\ \A c \in NewCompletions : TaskOf(c).task_type = "normal"

\* C2 -- single-candidate auto-allocation: a logging request without an
\* explicit choice, made through one of the action endpoints while the next
\* rank has exactly one total_xp condition, is answered ok and the one row it
\* writes is allocated to that condition.
C2_SingleCandidate ==
  [][ ( /\ last'.op \in ActionEndpoints
        /\ IncrementOrToggleOn
        /\ last'.explicit = NoId
        /\ Cardinality(CandidateIds) = 1
        /\ NewRows # {} )
      => /\ last'.status = "ok"
         /\ Cardinality(NewRows) = 1
         /\ \A r \in NewRows : r.allocated_condition_id \in CandidateIds ]_vars

\* XP of the ledger rows of user u allocated to condition c
AllocatedXp(c, u) ==
  LET es == {e \in EntriesOf(u) : e.allocated_condition_id = c.id}
      cs == {t \in CompletionsOf(u) : t.allocated_condition_id = c.id}
  IN SumFn([e \in es |-> get_xp(e)], es) + SumFn([t \in cs |-> t.xp_earned], cs)

\* C3 -- the value of a bucketed total_xp condition is the XP of the entries
\* and of the task completions allocated to it, and nothing else.
C3_BucketValue ==
  \A c \in conditions :
    (c.condition_type = "total_xp" /\ c.is_bucket)
      => current_value(c, U) = AllocatedXp(c, U)

\* XP of every ledger row of user u, whatever its allocation
LedgerXp(u) ==
  LET es == EntriesOf(u)
      cs == CompletionsOf(u)
  IN SumFn([e \in es |-> get_xp(e)], es) + SumFn([t \in cs |-> t.xp_earned], cs)

\* C4 -- the value of a global total_xp condition is the sum of get_xp() over
\* all of the user's ledger rows, whatever their allocation.
C4_GlobalValue ==
  \A c \in conditions :
    (c.condition_type = "total_xp" /\ ~c.is_bucket)
      => current_value(c, U) = LedgerXp(U)

\* pairs of distinct bucketed total_xp conditions of one rank
BucketPairs ==
  { p \in conditions \X conditions :
      /\ p[1].id # p[2].id
      /\ p[1].rank_id = p[2].rank_id
      /\ p[1].condition_type = "total_xp" /\ p[1].is_bucket
      /\ p[2].condition_type = "total_xp" /\ p[2].is_bucket }

\* the step only added rows, all of them allocated to condition a
LoggedTo(a) ==
  /\ NewRows # {}
  /\ entries \subseteq entries'
  /\ completions \subseteq completions'
  /\ \A r \in NewRows : r.allocated_condition_id = a.id

\* C5 -- bucket isolation: for two bucketed total_xp conditions A and B of
\* one rank, a step that logs rows allocated to A leaves the value of B
\* unchanged (and, the pair being unordered, the same with A and B swapped).
C5_BucketIsolation ==
  [][ \A p \in BucketPairs :
        LoggedTo(p[1]) => current_value(p[2], U)' = current_value(p[2], U) ]_vars

\* entries were logged to both buckets of a rank, and each bucket holds the
\* XP of its own entry only
C5_Witness ==
  \E p \in BucketPairs :
    \E e1 \in entries, e2 \in entries :
      /\ e1.allocated_condition_id = p[1].id
      /\ e2.allocated_condition_id = p[2].id
      /\ current_value(p[1], U) = get_xp(e1)
      /\ current_value(p[2], U) = get_xp(e2)
      /\ get_xp(e1) # get_xp(e2)

\* ranks of the user whose conditions are met
MetRanks == {r \in RanksOf(U) : check_conditions_met(r, U)}

\* C6 -- highest qualifying rank: the current rank is the met rank of the
\* highest level, whether or not the ranks below it are met, and None when no
\* rank is met.
C6_HighestQualifying ==
  IF MetRanks = {}
  THEN current_rank(U) = NoRank
  ELSE /\ current_rank(U) \in MetRanks
       /\ \A r \in MetRanks : r.level <= current_rank(U).level

\* levels 1, 3 and 5 of a five-level ladder are met, 2 and 4 are not, after
\* a request; the current rank is level 5
C6_Witness ==
  /\ last.op # "none"
  /\ {r.level : r \in RanksOf(U)} = 1..5
  /\ {r.level : r \in MetRanks} = {1, 3, 5}
  /\ current_rank(U).level = 5

\* the rank the claim names as next: none above a max rank, else the lowest
\* level above the current one
LowestAbove(cur) ==
  LET current_level == IF cur # NoRank THEN cur.level ELSE 0
      higher == {r \in RanksOf(U) : r.level > current_level}
  IN IF cur # NoRank /\ cur.is_max_rank THEN NoRank
     ELSE IF higher = {} THEN NoRank
     ELSE CHOOSE r \in higher : \A o \in higher : r.level <= o.level

\* C7 -- next rank: the rank of the lowest level above the current rank's
\* level (0 without a current rank); None when the current rank is
\* is_max_rank, even with ranks above it, and None when no rank is above.
C7_NextRank == next_rank(U) = LowestAbove(current_rank(U))

\* C8 -- allConditionsMet: a rank with conditions is met iff every condition
\* is met; a rank without conditions is met iff the total XP reaches its
\* min_xp, and always when min_xp is null.
C8_AllConditionsMet ==
  \A r \in RanksOf(U) :
    check_conditions_met(r, U) =
      IF ConditionsOf(r) # {}
      THEN \A c \in ConditionsOf(r) : check_condition(c, U).met
      ELSE IF r.min_xp # NoXp THEN User_get_total_xp(U) >= r.min_xp
      ELSE TRUE

\* after a request, a rank has a met and an unmet condition and is not met,
\* while a rank without conditions is met through its min_xp
C8_Witness ==
  /\ last.op # "none"
  /\ \E r \in RanksOf(U) :
       /\ \E c \in ConditionsOf(r) : check_condition(c, U).met
       /\ \E c \in ConditionsOf(r) : ~check_condition(c, U).met
       /\ ~check_conditions_met(r, U)
  /\ \E r \in RanksOf(U) :
       /\ ConditionsOf(r) = {}
       /\ r.min_xp # NoXp
       /\ check_conditions_met(r, U)

\* C9 -- no-candidate case: a logging request without an explicit choice,
\* made while the next rank has no total_xp condition (or there is no next
\* rank), writes its row with allocated_condition_id null, and the row
\* changes the value of no condition flagged is_bucket.
C9_NoCandidate ==
  [][ ( /\ LogRequest
        /\ last'.explicit = NoId
        /\ CandidateIds = {}
        /\ NewRows # {} )
      => /\ \A r \in NewRows : r.allocated_condition_id = NoId
         /\ \A c \in conditions :
              c.is_bucket => current_value(c, U)' = current_value(c, U) ]_vars

LedgerRows == entries \cup completions

\* the condition an allocation points to belongs to a rank of user u
OwnedCondition(id, u) ==
  \E c \in conditions : \E r \in ranks :
    c.id = id /\ c.rank_id = r.id /\ r.user_id = u

\* C11 -- allocation-target ownership: every entry or completion with a
\* non-null allocated_condition_id points to a condition of a rank owned by
\* the user of the row, after any log, rank edit, rank delete or import.
C11_Ownership ==
  \A r \in LedgerRows :
    r.allocated_condition_id # NoId => OwnedCondition(r.allocated_condition_id, r.user_id)

\* the step is a run of the bucket migration that found total_xp conditions
\* to convert
Migrated == last'.op = "migrate" /\ last'.status = "ok"

RowAfter(rows, id) == CHOOSE r \in rows : r.id = id

\* the step keeps the rows of the table and changes nothing in them but the
\* null allocations, which become target
OnlyNullsAllocated(before, after, target) ==
  /\ {r.id : r \in after} = {r.id : r \in before}
  /\ Cardinality(after) = Cardinality(before)
  /\ \A r \in before :
       RowAfter(after, r.id) =
         IF r.allocated_condition_id = NoId
         THEN [r EXCEPT !.allocated_condition_id = target]
         ELSE r

MigratedRankId == (CHOOSE c \in conditions : c.id = last'.row).rank_id

\* C14 -- migration conversion and recipient: the migration sets is_bucket on
\* every total_xp condition of the migrated rank and changes no other
\* condition, and the default recipient is the converted condition of lowest
\* id, whatever the order in which the rank's conditions are listed.
C14_MigrationRecipient ==
  [][ Migrated
      => LET converted == {c \in conditions : c.rank_id = MigratedRankId
                                              /\ c.condition_type = "total_xp"}
         IN /\ conditions' =
                 { IF c \in converted THEN [c EXCEPT !.is_bucket = TRUE] ELSE c :
                   c \in conditions }
            /\ \A c \in converted : last'.row <= c.id ]_vars

\* the ledger of the worked scenario: one sale of value 1000, not allocated
OneSale(es) ==
  /\ Cardinality(es) = 1
  /\ \A e \in es : /\ TrackableById(e.trackable_type_id).slug = "sale"
                   /\ e.value = 1000 /\ e.count = 1
                   /\ e.allocated_condition_id = NoId

GoldConditions == {c \in conditions : c.rank_id = 2 /\ c.condition_type = "total_xp"}

\* C15 -- worked scenario: on the rank with two global total_xp conditions,
\* logging one sale of value 1000 makes both conditions report 100; the
\* migration of that rank then makes the lower-id condition report 100 and
\* the other one 0.
C15_WorkedScenario ==
  [][ /\ ( /\ ranks = LadderGold.ranks
           /\ conditions = LadderGold.conditions
           /\ entries = {} /\ completions = {} /\ completions' = {}
           /\ OneSale(entries') )
        => \A c \in GoldConditions : current_value(c, U)' = 100
      /\ ( /\ ranks = LadderGold.ranks
           /\ conditions = LadderGold.conditions
           /\ OneSale(entries) /\ completions = {}
           /\ Migrated )
        => \A c \in GoldConditions :
             current_value([c EXCEPT !.is_bucket = TRUE], U)' =
               IF \A o \in GoldConditions : c.id <= o.id THEN 100 ELSE 0 ]_vars

\* the step deleted the conditions of rank last'.row: a rank edit or an
\* import rebuilt them, a rank delete removed them with the rank
ConditionsDeleted ==
  last'.op \in {"admin_rank_edit", "admin_import_settings", "admin_rank_delete"}

\* C16 -- dangling allocation target: when the conditions of a rank are
\* deleted (and re-created by an edit or an import), the entries that pointed
\* to them are counted by no bucketed condition, the newly created ones
\* included, so that every new bucket starts at 0; the global total still
\* counts them.
C16_DanglingTarget ==
  [][ ConditionsDeleted
      => /\ \A c \in conditions' :
              (c.rank_id = last'.row /\ c.condition_type = "total_xp" /\ c.is_bucket)
                => current_value(c, U)' = 0
         /\ User_get_total_xp(U)' = User_get_total_xp(U) ]_vars

\* C17 -- threshold inclusivity: a condition is met exactly when its current
\* value is at least its threshold; a value equal to the threshold is met, a
\* value one below it is not.
C17_ThresholdInclusive ==
  \A c \in conditions :
    /\ check_condition(c, U).met <=> (check_condition(c, U).value >= c.threshold)
    /\ check_condition(c, U).value = c.threshold => check_condition(c, U).met
    /\ check_condition(c, U).value = c.threshold - 1 => ~check_condition(c, U).met

\* after a request, a condition sits exactly on its positive threshold and
\* is met, another one is one below its threshold and is not
C17_Witness ==
  /\ last.op # "none"
  /\ \E c \in conditions :
       /\ c.threshold > 0
       /\ check_condition(c, U).value = c.threshold
       /\ check_condition(c, U).met
  /\ \E c \in conditions :
       /\ check_condition(c, U).value = c.threshold - 1
       /\ ~check_condition(c, U).met

\* the progress items of the conditions of the next rank
NextRankItems ==
  LET next == get_user_stats(U).next_rank
  IN IF next # NoRank /\ ConditionsOf(next) # {} THEN progress_details(next, U) ELSE {}

\* the percentage the progress bar credits to one condition
CreditedPercent(i) ==
  TruncDiv(100 * condition_share(i).num, condition_share(i).den)

\* min(100, currentValue / threshold * 100), and 100 for a threshold <= 0
ClaimedPercent(i) ==
  IF i.threshold <= 0 THEN 100
  ELSE IF i.current >= i.threshold THEN 100
  ELSE (100 * i.current) \div i.threshold

\* C18 -- per-condition progress: a condition of the next rank is credited
\* min(100, currentValue / threshold * 100) when its threshold is positive
\* and 100% when its threshold is zero or negative; never less than 0 or more
\* than 100.
C18_ConditionProgress ==
  \A i \in NextRankItems :
    /\ CreditedPercent(i) = ClaimedPercent(i)
    /\ CreditedPercent(i) \in 0..100

\* the clamped share the claims give a condition, as a fraction
ClaimedShare(i) ==
  IF i.threshold <= 0 \/ i.current >= i.threshold
  THEN [num |-> 1, den |-> 1]
  ELSE [num |-> i.current, den |-> i.threshold]

\* the clamped share of XP between the min_xp of the current rank and the
\* min_xp of the next one
LegacyShare(cur, next) ==
  LET prev_xp == IF cur # NoRank /\ cur.min_xp # NoXp THEN cur.min_xp ELSE 0
      p == TruncDiv((User_get_total_xp(U) - prev_xp) * 100, next.min_xp - prev_xp)
  IN IF p > 100 THEN 100 ELSE IF p < 0 THEN 0 ELSE p

\* C19 -- aggregate progress: towards a next rank with conditions,
\* progress_percent is the mean of the conditions' clamped percentages;
\* towards a legacy next rank (no conditions, a min_xp above the current
\* rank's) it is the clamped share of XP between the two min_xp; it always
\* lies in 0..100.
C19_AggregateProgress ==
  LET cur == get_user_stats(U).current_rank
      next == get_user_stats(U).next_rank
      prev_xp == IF cur # NoRank /\ cur.min_xp # NoXp THEN cur.min_xp ELSE 0
  IN /\ progress_percent(U) \in 0..100
     /\ NextRankItems # {}
          => progress_percent(U) =
               mean_percent([i \in NextRankItems |-> ClaimedShare(i)], NextRankItems)
     /\ (next # NoRank /\ ConditionsOf(next) = {} /\ next.min_xp # NoXp
         /\ next.min_xp > prev_xp)
          => progress_percent(U) = LegacyShare(cur, next)

\* entries of the user of the trackable type a condition names
EntriesOfSlug(c) ==
  {e \in EntriesOf(U) :
     \E t \in TrackableBySlug(U, c.trackable_slug) : e.trackable_type_id = t.id}

\* what the bucket rule lets a trackable condition count: the entries of its
\* type allocated to it when it is a bucket, all entries of its type when not
CountedEntries(c) ==
  IF c.is_bucket
  THEN {e \in EntriesOfSlug(c) : e.allocated_condition_id = c.id}
  ELSE EntriesOfSlug(c)

\* C20 -- bucket rule for the trackable kinds: a trackable_xp or
\* trackable_count condition flagged is_bucket counts only the entries of its
\* trackable type allocated to it; one that is not flagged counts all entries
\* of the type.
C20_TrackableBucketRule ==
  \A c \in conditions :
    /\ c.condition_type = "trackable_count"
         => current_value(c, U) =
              SumFn([e \in CountedEntries(c) |-> e.count], CountedEntries(c))
    /\ c.condition_type = "trackable_xp"
         => current_value(c, U) =
              SumFn([e \in CountedEntries(c) |-> get_xp(e)], CountedEntries(c))

\* C21 -- non-negative condition values: in every reachable ledger state,
\* with entries of any count and value the log-entry form accepts, the
\* current value check_condition returns is >= 0 for every condition.
C21_NonNegativeValues ==
  \A c \in conditions : check_condition(c, U).value >= 0

\* C26 -- streak invariant: from current_count = longest_count = 0, after
\* every update_streak call, whatever the activity date, longest_count >=
\* current_count >= 1, longest_count did not decrease and last_activity_date
\* did not move to an earlier date.
C26_StreakInvariant ==
  [][ streak'[U] # streak[U] =>
        /\ streak'[U].longest_count >= streak'[U].current_count
        /\ streak'[U].current_count >= 1
        /\ streak'[U].longest_count >= streak[U].longest_count
        /\ streak[U].last_activity_date # NoDate =>
             streak'[U].last_activity_date >= streak[U].last_activity_date ]_vars

\* the kinds check_condition has a branch for
SupportedKinds ==
  { "total_xp", "trackable_xp", "trackable_count", "youtube_subscribers",
    "youtube_total_views", "youtube_long_count", "youtube_short_count",
    "youtube_long_views", "youtube_short_views", "streak_current",
    "streak_longest", "tasks_completed", "total_days_active", "total_goals_met",
    "youtube_total_count", "perfect_weeks", "achievements_unlocked" }

\* a condition no branch of check_condition takes
Unrecognized(c) ==
  \/ c.condition_type \notin SupportedKinds
  \/ c.condition_type \in {"trackable_xp", "trackable_count"} /\ c.trackable_slug = ""

\* C22 -- unrecognized condition kind: evaluating a condition of an
\* unsupported kind, or of a trackable kind without a trackable_slug, ends in
\* an error and yields no (met, value) result; such a condition is never
\* reported as met, a threshold of 0 or below included.
C22_UnrecognizedKind ==
  \A c \in conditions :
    Unrecognized(c) => ~check_condition(c, U).met

\* C23 -- rank level uniqueness: in every reachable state no two ranks of the
\* user have the same level, whatever rank edits, deletions and imports were
\* made.
C23_LevelsUnique ==
  \A r1 \in RanksOf(U), r2 \in RanksOf(U) : r1.level = r2.level => r1.id = r2.id

\* C25 -- migration and resolver agree on the next rank: in every state the
\* rank the bucket migration targets (the first rank, by ascending level,
\* whose conditions are not all met) is the next rank get_user_stats computes
\* (the rank just above the highest met rank).
C25_SameNextRank ==
  FirstUnmetUpwards(RanksOf(U), U) = get_user_stats(U).next_rank

\* the last request was a task action that committed
TaskCommitted ==
  /\ last.op \in {"admin_task_action", "admin_toggle_daily_task"}
  /\ last.status = "ok"

\* C27 -- daily-log consistency: after every committed task action through
\* admin_task_action or admin_toggle_daily_task, today's DailyLog.total_xp is
\* the sum of xp_earned over the user's completions of today, and goal_met is
\* true exactly when that sum is at least the user's daily_xp_goal.
C27_DailyLogConsistent ==
  TaskCommitted =>
    /\ daily_log[U].exists
    /\ daily_log[U].total_xp = total_task_xp(U, completions)
    /\ daily_log[U].goal_met <=> (total_task_xp(U, completions) >= daily_xp_goal)

CountTasks == {task \in GoalTasks : task.task_type = "count"}

\* XP earned today from the task
TaskXpToday(task) ==
  SumFn([c \in TodayCompletions(U, task) |-> c.xp_earned], TodayCompletions(U, task))

UndoTargets ==
  { e \in entries :
      /\ e.user_id = U
      /\ e.date = Today
      /\ \A o \in entries :
           (o.user_id = U /\ o.date = Today /\ o.trackable_type_id = e.trackable_type_id)
             => o.id <= e.id }

\* C29 -- trackable decrement is a scoped undo: a decrement deletes at most
\* one entry, the user's highest-id entry of today for one trackable type,
\* and leaves every other row alone; and once the decrements have undone
\* every increment made on the empty ledger, every condition's current value
\* is back at the 0 it had before the increments.
C29_ScopedUndo ==
  [][ (last'.op = "admin_trackable_action" /\ last'.action = "decrement") =>
        /\ entries' \subseteq entries
        /\ \/ entries' = entries
           \/ \E e \in UndoTargets : entries' = entries \ {e}
        /\ UNCHANGED << completions, daily_log, ranks, conditions >>
        /\ entries' = {} => \A c \in conditions : check_condition(c, U)'.value = 0 ]_vars

\* a request of the second account
OtherUserStep ==
  \/ CrossTrackableAction
  \/ CrossLogEntry
  \/ CrossRankEdit

\* the conditions of the first account's ranks
OwnConditions == {c \in conditions : \E r \in RanksOf(U) : c.rank_id = r.id}

\* C30 -- cross-user non-interference: no request of another account (a log
\* with any explicit allocated_condition_id, the id of one of this account's
\* conditions included, a decrement, an edit of its own ranks) changes the
\* current value or met status of any of this account's conditions, or this
\* account's current and next rank.
C30_NonInterference ==
  [][ OtherUserStep =>
        /\ \A c \in OwnConditions : check_condition(c, U)' = check_condition(c, U)
        /\ get_user_stats(U)' = get_user_stats(U) ]_vars

\* the requests that were answered, and those among them that wrote
Answered == {r \in RaceRequests : inflight[r].phase = "done"}

Wrote == {r \in Answered : inflight[r].status = "ok"}

\* the allocation targets the claim allows a request: null, its explicit
\* choice, or the single candidate it read
AllowedTargets(r) ==
  {NoId, inflight[r].explicit}
    \cup (IF Cardinality(inflight[r].candidates) = 1 THEN inflight[r].candidates ELSE {})

====
